---- MODULE Spec2Model ----
(***************************************************************************)
(* A model of BitwardenReader (src/format/BitwardenReader.cpp): the        *)
(* conversion of a Bitwarden JSON export, optionally password-protected,   *)
(* into a database of groups and entries.                                  *)
(*                                                                         *)
(*   Spec      convert(): the file checks, the key derivation, the MAC     *)
(*             validation, the decryption and the construction of the      *)
(*             database, one action per stage of the function.             *)
(*   SpecVault writeVaultToDatabase(): one action per folder and per item. *)
(*   SpecItem  readItem(): one action per sub-object of the item and per   *)
(*             custom field.                                               *)
(*                                                                         *)
(* Cryptographic primitives are symbolic: a key, a MAC or a ciphertext is  *)
(* the string that names how it was computed, so two of them are equal     *)
(* exactly when they were computed from equal inputs.  The TOTP settings   *)
(* and the passkey attributes of a login (lines 72-119) are not modelled.  *)
(***************************************************************************)
EXTENDS Integers, Sequences, FiniteSets, TLC

(***************************************************************************)
(* Bounds of the model.                                                    *)
(***************************************************************************)
MaxUris == 3
MaxFields == 2
MaxFolders == 2
MaxItems == 2

(***************************************************************************)
(* Program constants.                                                      *)
(***************************************************************************)
KdfPbkdf2 == 0
KdfArgon2 == 1
FieldTypeHidden == 1

\* All sequences over S of length at most n.
SeqUpTo(n, S) == UNION {[1..k -> S] : k \in 0..n}

(***************************************************************************)
(* Entries and their attributes (core/Entry, core/EntryAttributes).        *)
(***************************************************************************)
EmptyEntry ==
    [title |-> "", username |-> "", password |-> "", url |-> "",
     tags |-> {}, attrs |-> << >>]

HasKey(attrs, key) == key \in DOMAIN attrs

SetAttr(attrs, key, value, protect) ==
    [k \in DOMAIN attrs \cup {key} |->
        IF k = key THEN [value |-> value, protect |-> protect] ELSE attrs[k]]

AdditionalUrlAttribute == "AdditionalUrl"

RECURSIVE RemoveAllEmpty(_)
RemoveAllEmpty(list) ==
    IF list = << >> THEN << >>
    ELSE IF Head(list) = "" THEN RemoveAllEmpty(Tail(list))
    ELSE <<Head(list)>> \o RemoveAllEmpty(Tail(list))

RECURSIVE Join(_, _)
Join(list, sep) ==
    IF list = << >> THEN ""
    ELSE IF Len(list) = 1 THEN Head(list)
    ELSE Head(list) \o sep \o Join(Tail(list), sep)

(***************************************************************************)
(* readItem, stage by stage.                                               *)
(***************************************************************************)
\* Lines 48-55: the folder id the item is filed under.
ReadFolderId(item) ==
    IF item.folderId # "" THEN item.folderId
    ELSE IF item.collectionIds # << >> THEN Head(item.collectionIds)
    ELSE ""

\* Lines 58-65: a fresh entry with its title and the Favorite tag.
ReadBase(item) ==
    [EmptyEntry EXCEPT !.title = item.name,
                       !.tags = IF item.favorite THEN {"Favorite"} ELSE {}]

\* ReadUris without the ++i of line 132.
RECURSIVE ReadUrisNoIncrement(_, _, _)
ReadUrisNoIncrement(entry, uris, i) ==
    IF uris = << >> THEN entry
    ELSE IF entry.url = ""
         THEN ReadUrisNoIncrement([entry EXCEPT !.url = Head(uris)], Tail(uris), i)
         ELSE ReadUrisNoIncrement(
                  [entry EXCEPT !.attrs =
                      SetAttr(@, AdditionalUrlAttribute \o "_" \o ToString(i),
                              Head(uris), FALSE)],
                  Tail(uris), i)

\* Lines 122-134: the loop over the login's uris; i is the next index.
RECURSIVE ReadUris(_, _, _)
ReadUris(entry, uris, i) ==
    IF uris = << >> THEN entry
    ELSE IF entry.url = ""
         THEN ReadUris([entry EXCEPT !.url = Head(uris)], Tail(uris), i)
         ELSE ReadUris([entry EXCEPT !.attrs =
                           SetAttr(@, AdditionalUrlAttribute \o "_" \o ToString(i),
                                   Head(uris), FALSE)],
                       Tail(uris), i + 1)

\* Lines 68-135.
ReadLogin(entry, item) ==
    IF ~item.hasLogin THEN entry
    ELSE ReadUris([entry EXCEPT !.username = item.login.username,
                                !.password = item.login.password],
                  item.login.uris, 1)

\* Lines 162-167 and 185-190: copy the non-empty values of map under prefix.
RECURSIVE CopyAttrs(_, _, _, _, _)
CopyAttrs(attrs, names, prefix, map, sensitive) ==
    IF names = << >> THEN attrs
    ELSE LET attr == Head(names)
             value == map[attr]
             next == IF value # ""
                     THEN SetAttr(attrs, prefix \o attr, value, attr \in sensitive)
                     ELSE attrs
         IN  CopyAttrs(next, Tail(names), prefix, map, sensitive)

IdentityKeys ==
    {"title", "firstName", "middleName", "lastName", "address1", "address2",
     "address3", "city", "state", "postalCode", "country", "company", "email",
     "phone", "ssn", "passportNumber", "licenseNumber", "username"}

\* ReadIdentityUsername without the test of line 172.
ReadIdentityUsernameOverwrites(entry, username) ==
    IF username = "" THEN entry ELSE [entry EXCEPT !.username = username]

\* Lines 170-177: the identity's username.
ReadIdentityUsername(entry, username) ==
    IF username = "" THEN entry
    ELSE IF entry.username = ""
         THEN [entry EXCEPT !.username = username]
         ELSE [entry EXCEPT !.attrs = SetAttr(@, "identity_username", username, FALSE)]

\* Lines 138-178.
ReadIdentity(entry, item) ==
    IF ~item.hasIdentity THEN entry
    ELSE LET idMap == item.identity
             name == Join(RemoveAllEmpty(<<idMap["title"], idMap["firstName"],
                                           idMap["middleName"], idMap["lastName"]>>), " ")
             address ==
                 Join(RemoveAllEmpty(<<idMap["address1"], idMap["address2"],
                                       idMap["address3"]>>), "\n")
                 \o "\n" \o idMap["city"] \o ", " \o idMap["state"] \o " "
                 \o idMap["postalCode"] \o "\n" \o idMap["country"]
             a1 == SetAttr(entry.attrs, "identity_name", name, FALSE)
             a2 == SetAttr(a1, "identity_address", address, FALSE)
             a3 == CopyAttrs(a2, <<"company", "email", "phone", "ssn",
                                   "passportNumber", "licenseNumber">>,
                             "identity_", idMap,
                             {"ssn", "passportNumber", "licenseNumber"})
         IN  ReadIdentityUsername([entry EXCEPT !.attrs = a3], idMap["username"])

CardKeys == {"cardholderName", "brand", "number", "expMonth", "expYear", "code"}

\* Lines 181-191.
ReadCard(entry, item) ==
    IF ~item.hasCard THEN entry
    ELSE [entry EXCEPT !.attrs =
             CopyAttrs(@, <<"cardholderName", "brand", "number", "expMonth",
                            "expYear", "code">>,
                       "card_", item.card, {"code"})]

\* Lines 196-205: one custom field; suffix is what the fresh uuid gives.
ReadField(entry, field, suffix) ==
    LET name == IF HasKey(entry.attrs, field.name)
                THEN field.name \o "_" \o suffix
                ELSE field.name
    IN  [entry EXCEPT !.attrs =
            SetAttr(@, name, field.value, field.type = FieldTypeHidden)]

\* Lines 194-206: the loop over the custom fields, from field n on.
RECURSIVE ReadFields(_, _, _, _)
ReadFields(entry, fields, suffixes, n) ==
    IF n > Len(fields) THEN entry
    ELSE ReadFields(ReadField(entry, fields[n], suffixes[n]), fields, suffixes, n + 1)

\* Lines 44-212.
ReadItem(item, suffixes) ==
    ReadFields(ReadCard(ReadIdentity(ReadLogin(ReadBase(item), item), item), item),
               item.fields, suffixes, 1)

(***************************************************************************)
(* writeVaultToDatabase.  A database is its groups below the root group    *)
(* and its entries; a group or an entry is named by the uuid given to it   *)
(* when it is created, the root group by RootUuid.                         *)
(***************************************************************************)
RootUuid == 0

\* Lines 397-398.
NewDatabase == [rootName |-> "Bitwarden Import", groups |-> << >>, entries |-> << >>]

\* QUuid::createUuid(): an identifier no group or entry of the database has.
CreateUuid(db) == Len(db.groups) + Len(db.entries) + 1

\* Lines 216-220.
FolderField(vault) == IF vault.hasFolders THEN "folders" ELSE "collections"

VaultContains(vault, field) ==
    IF field = "folders" THEN vault.hasFolders
    ELSE IF field = "collections" THEN vault.hasCollections
    ELSE vault.hasItems

VaultValue(vault, field) ==
    IF field = "folders" THEN vault.folders
    ELSE IF field = "collections" THEN vault.collections
    ELSE vault.items

\* Line 222.
MissingCriticalItems(vault) ==
    ~VaultContains(vault, FolderField(vault)) \/ ~VaultContains(vault, "items")

\* QMap::value(key, default).
MapValue(map, key, default) == IF key \in DOMAIN map THEN map[key] ELSE default

\* QMap::insert(key, value): a later value replaces an earlier one.
MapInsert(map, key, value) ==
    [k \in DOMAIN map \cup {key} |-> IF k = key THEN value ELSE map[k]]

\* The locals of writeVaultToDatabase before its loops (lines 228 and 238).
VaultStart(db) == [db |-> db, folderMap |-> << >>, folderId |-> ""]

\* Lines 230-235: the body of the loop over the folders.
CreateGroup(st, folder) ==
    LET uuid == CreateUuid(st.db)
        group == [uuid |-> uuid, name |-> folder.name, parent |-> RootUuid]
    IN  [st EXCEPT !.db.groups = Append(@, group),
                   !.folderMap = MapInsert(@, folder.id, uuid)]

\* AttachItem that attaches an entry only to a group of the folder map.
AttachItemKnownOnly(st, item, n, suffixes) ==
    LET folderId == ReadFolderId(item)
        entry == ReadItem(item, suffixes)
    IN  IF folderId \in DOMAIN st.folderMap
        THEN [st EXCEPT !.folderId = folderId,
                        !.db.entries = Append(@, [uuid |-> CreateUuid(st.db), item |-> n,
                                                  entry |-> entry,
                                                  group |-> st.folderMap[folderId]])]
        ELSE [st EXCEPT !.folderId = folderId]

\* Lines 241-244: the body of the loop over the items; n is the item's place.
AttachItem(st, item, n, suffixes) ==
    LET folderId == ReadFolderId(item)
        entry == ReadItem(item, suffixes)
        owner == MapValue(st.folderMap, folderId, RootUuid)
    IN  [st EXCEPT !.folderId = folderId,
                   !.db.entries = Append(@, [uuid |-> CreateUuid(st.db), item |-> n,
                                             entry |-> entry, group |-> owner])]

RECURSIVE CreateGroups(_, _)
CreateGroups(st, folders) ==
    IF folders = << >> THEN st
    ELSE CreateGroups(CreateGroup(st, Head(folders)), Tail(folders))

\* The number of custom fields of the items before item n.
RECURSIVE FieldsBefore(_, _)
FieldsBefore(items, n) ==
    IF n <= 1 THEN 0 ELSE FieldsBefore(items, n - 1) + Len(items[n - 1].fields)

\* The suffixes item n draws from the sequence random of all the draws.
SuffixesOf(items, n, random) ==
    [j \in 1..Len(items[n].fields) |-> random[FieldsBefore(items, n) + j]]

RECURSIVE AttachItems(_, _, _, _)
AttachItems(st, items, n, random) ==
    IF n > Len(items) THEN st
    ELSE AttachItems(AttachItem(st, items[n], n, SuffixesOf(items, n, random)),
                     items, n + 1, random)

\* Lines 214-246.
WriteVaultToDatabase(vault, db, random) ==
    IF MissingCriticalItems(vault) THEN db
    ELSE AttachItems(CreateGroups(VaultStart(db), VaultValue(vault, FolderField(vault))),
                     vault.items, 1, random).db

(***************************************************************************)
(* The encryption envelope.  A string field such as data is kept as the    *)
(* list split(".") gives, each element as the list split("|") gives: a     *)
(* missing or empty field is << <<"">> >>.                                 *)
(***************************************************************************)
ToBase64(bytes) == "b64:" \o bytes

\* QByteArray::fromBase64: the bytes of a base64 text, nothing of any other text.
FromBase64(text) ==
    IF Len(text) >= 4 /\ SubSeq(text, 1, 4) = "b64:"
    THEN SubSeq(text, 5, Len(text))
    ELSE ""

Sha256(data) == "sha256(" \o data \o ")"

Hmac(key, data) == "hmac(" \o key \o ";" \o data \o ")"

Pbkdf2(password, salt, iterations) ==
    "pbkdf2(" \o password \o "," \o salt \o "," \o ToString(iterations) \o ")"

Argon2id(password, seed, rounds, memory, parallelism) ==
    "argon2id(" \o password \o "," \o seed \o "," \o ToString(rounds) \o ","
    \o ToString(memory) \o "," \o ToString(parallelism) \o ")"

HkdfExpand(key, label) == "hkdf(" \o key \o "," \o label \o ")"

AesCbcEncrypt(key, iv, plain) == "aes(" \o key \o "," \o iv \o "," \o plain \o ")"

BlockSizeIv == "iv16"

\* SymmetricCipher::init: fails on an iv that is not one block long.
CipherInit(key, iv) == iv = BlockSizeIv

\* IsEncrypted without the toBool() of line 287.
IsEncryptedFlagOnly(json) == json.encrypted # "absent"

\* Line 287.
IsEncrypted(json) == json.encrypted # "absent" /\ json.encrypted = "true"

\* DeriveMasterKey with Argon2 as the branch of every kdfType but 0.
DeriveMasterKeyNoElse(json, password) ==
    IF json.kdfType = KdfPbkdf2
    THEN IF json.kdfIterations <= 0
         THEN [error |-> "Invalid KDF iterations, cannot decrypt json file", key |-> ""]
         ELSE [error |-> "", key |-> Pbkdf2(password, json.salt, json.kdfIterations)]
    ELSE [error |-> "",
          key |-> Argon2id(password, Sha256(json.salt), json.kdfIterations,
                           json.kdfMemory * 1024, json.kdfParallelism)]

\* Lines 302-333: the master key, or the error that ends the conversion.
DeriveMasterKey(json, password) ==
    IF json.kdfType = KdfPbkdf2
    THEN IF json.kdfIterations <= 0
         THEN [error |-> "Invalid KDF iterations, cannot decrypt json file", key |-> ""]
         ELSE [error |-> "", key |-> Pbkdf2(password, json.salt, json.kdfIterations)]
    ELSE IF json.kdfType = KdfArgon2
    THEN [error |-> "",
          key |-> Argon2id(password, Sha256(json.salt), json.kdfIterations,
                           json.kdfMemory * 1024, json.kdfParallelism)]
    ELSE [error |-> "Only PBKDF and Argon2 are supported, cannot decrypt json file",
          key |-> ""]

\* MacMatches that only looks for a stored MAC.
MacMatchesPresent(mac, cipherList) == cipherList[3] # ""

\* Lines 356-360: whether the computed MAC equals the stored one.
MacMatches(mac, cipherList) ==
    ToBase64(Hmac(mac, FromBase64(cipherList[1]) \o FromBase64(cipherList[2])))
        = cipherList[3]

\* Line 289.
BuildError(errorString) == "Failed to decrypt json file: " \o errorString

\* The plaintexts a data field may hold, and the ones that are JSON documents.
Plaintexts == {"json:vault", "text"}

\* SymmetricCipher::finish: what decrypting data under key and iv can give.  Under
\* another key, or on bytes that are no ciphertext, the padding check fails or
\* passes by chance on bytes that are no document.
CipherFinish(key, iv, data) ==
    IF \E t \in Plaintexts : data = AesCbcEncrypt(key, iv, t)
    THEN {[ok |-> TRUE, plain |-> t] : t \in {u \in Plaintexts : data = AesCbcEncrypt(key, iv, u)}}
    ELSE {[ok |-> FALSE, plain |-> ""], [ok |-> TRUE, plain |-> "garbage"]}

(***************************************************************************)
(* The inputs: items, vault trees, documents and passwords.                *)
(***************************************************************************)
Suffixes == {"1b9d6", "9c5a2"}
Passwords == {"correct-horse", "wrong"}

NoLogin == [username |-> "", password |-> "", uris |-> << >>]
NoIdentity == [k \in IdentityKeys |-> ""]
NoCard == [k \in CardKeys |-> ""]

SimpleItem(folderId, collectionIds) ==
    [name |-> "Site", favorite |-> FALSE, folderId |-> folderId,
     collectionIds |-> collectionIds,
     hasLogin |-> FALSE, login |-> NoLogin,
     hasIdentity |-> FALSE, identity |-> NoIdentity,
     hasCard |-> FALSE, card |-> NoCard, fields |-> << >>]

UriInputs == {"", "https://a", "https://b"}

LoginInputs ==
    {[has |-> FALSE, login |-> NoLogin]}
    \cup {[has |-> TRUE, login |-> [username |-> "", password |-> "secret",
                                     uris |-> << >>]]}
    \cup {[has |-> TRUE, login |-> [username |-> "bob", password |-> "secret",
                                     uris |-> us]] :
             us \in SeqUpTo(MaxUris, UriInputs)}

IdentityInputs ==
    {[has |-> FALSE, identity |-> NoIdentity]}
    \cup {[has |-> TRUE,
           identity |-> [NoIdentity EXCEPT !["username"] = u, !["firstName"] = "Al",
                                           !["lastName"] = "Ice", !["ssn"] = "078-05-1120",
                                           !["city"] = "Oslo"]] :
             u \in {"", "alice"}}

CardInputs ==
    {[has |-> FALSE, card |-> NoCard],
     [has |-> TRUE, card |-> [NoCard EXCEPT !["number"] = "4111", !["code"] = "999"]]}

FieldInputs ==
    {[name |-> "note", value |-> "v1", type |-> 0],
     [name |-> "note", value |-> "v2", type |-> 1],
     [name |-> "card_code", value |-> "v2", type |-> 1],
     [name |-> "card_code_1b9d6", value |-> "v1", type |-> 0]}

ItemInputs ==
    {[SimpleItem("f1", << >>) EXCEPT
         !.hasLogin = l.has, !.login = l.login,
         !.hasIdentity = i.has, !.identity = i.identity,
         !.hasCard = c.has, !.card = c.card, !.fields = fs] :
        l \in LoginInputs, i \in IdentityInputs, c \in CardInputs,
        fs \in SeqUpTo(MaxFields, FieldInputs)}

\* The items of the vault trees: every way to refer to a folder, and one item
\* with a login and a custom field.
VaultItems ==
    {SimpleItem(f, c) : f \in {"", "f1", "zz"}, c \in {<< >>, <<"c1">>}}
    \cup {[SimpleItem("", <<"c1", "f1">>) EXCEPT
              !.name = "Mail", !.favorite = TRUE, !.hasLogin = TRUE,
              !.login = [username |-> "bob", password |-> "secret",
                         uris |-> <<"https://a">>],
              !.fields = <<[name |-> "note", value |-> "v1", type |-> 0]>>]}

FolderInputs ==
    {[id |-> "f1", name |-> "Work"], [id |-> "c1", name |-> "Team"],
     [id |-> "", name |-> "Unnamed"]}

VaultInputs ==
    {v \in {[hasFolders |-> hf, folders |-> fs, hasCollections |-> hc,
             collections |-> IF hc THEN <<[id |-> "c1", name |-> "Org"]>> ELSE << >>,
             hasItems |-> hi, items |-> is] :
               hf \in BOOLEAN, hc \in BOOLEAN, hi \in BOOLEAN,
               fs \in SeqUpTo(MaxFolders, FolderInputs),
               is \in SeqUpTo(MaxItems, VaultItems)} :
        /\ ~v.hasFolders => v.folders = << >>
        /\ ~v.hasItems => v.items = << >>}

EmptyVault ==
    [hasFolders |-> FALSE, folders |-> << >>, hasCollections |-> FALSE,
     collections |-> << >>, hasItems |-> FALSE, items |-> << >>]

\* The vault of the end-to-end scenario, with an unfiled item beside it.
WorkVault ==
    [EmptyVault EXCEPT
        !.hasFolders = TRUE, !.folders = <<[id |-> "f1", name |-> "Work"]>>,
        !.hasItems = TRUE,
        !.items = <<[SimpleItem("f1", << >>) EXCEPT
                        !.hasLogin = TRUE,
                        !.login = [username |-> "bob", password |-> "secret",
                                   uris |-> << >>],
                        !.fields = <<[name |-> "note", value |-> "v1", type |-> 0]>>],
                    SimpleItem("", << >>)>>]

\* The vault trees of the documents convert() is given.
DocumentVaults ==
    {EmptyVault, WorkVault,
     [EmptyVault EXCEPT !.hasItems = TRUE, !.items = <<SimpleItem("", << >>)>>],
     [EmptyVault EXCEPT !.hasCollections = TRUE,
                        !.collections = <<[id |-> "c1", name |-> "Org"]>>]}

\* QJsonDocument::fromJson on decrypted bytes: the document, or a parse error.
JsonTexts == [t \in {"json:vault"} |-> WorkVault]

EmptyField == << <<"">> >>

\* A document that holds a vault tree and no envelope.
PlainDocument(vault) ==
    [encrypted |-> "absent", hasKdfType |-> FALSE, kdfType |-> 0, hasSalt |-> FALSE,
     salt |-> "", kdfIterations |-> 0, kdfMemory |-> 0, kdfParallelism |-> 0,
     encKeyValidation |-> EmptyField, data |-> EmptyField, vault |-> vault]

\* The MAC and encryption keys convert() derives for a document and a password.
MacKeyFor(json, password) == HkdfExpand(DeriveMasterKey(json, password).key, "mac")
EncKeyFor(json, password) == HkdfExpand(DeriveMasterKey(json, password).key, "enc")

\* The validation field an export protected with password carries.
ChallengeFor(json, password) ==
    << <<"2">>,
       <<ToBase64(BlockSizeIv), ToBase64("challenge"),
         ToBase64(Hmac(MacKeyFor(json, password), BlockSizeIv \o "challenge"))>> >>

\* The data field that holds plain encrypted under password.
DataFor(json, password, plain) ==
    << <<"2">>,
       <<ToBase64(BlockSizeIv),
         ToBase64(AesCbcEncrypt(EncKeyFor(json, password), BlockSizeIv, plain)),
         ToBase64("mac")>> >>

ChallengeInputs(json) ==
    {EmptyField,
     << <<"2">>, <<ToBase64(BlockSizeIv), ToBase64("challenge")>> >>,
     << <<"2">>, <<ToBase64(BlockSizeIv), ToBase64("challenge"), ToBase64("junk")>> >>}
    \cup {ChallengeFor(json, p) : p \in Passwords}

DataInputs(json) ==
    {EmptyField,
     << <<"2">>, <<ToBase64(BlockSizeIv)>> >>,
     << <<"2">>, <<ToBase64("iv8"), ToBase64("junk")>> >>,
     << <<"2">>, <<ToBase64(BlockSizeIv), ToBase64("junk")>> >>}
    \cup {DataFor(json, p, t) : p \in Passwords, t \in Plaintexts}

KdfInputs == {<<FALSE, 0>>, <<TRUE, 0>>, <<TRUE, 1>>, <<TRUE, 2>>}

Envelopes ==
    {[PlainDocument(v) EXCEPT
         !.encrypted = e, !.hasKdfType = k[1], !.kdfType = k[2],
         !.hasSalt = hs, !.salt = IF hs THEN "salt" ELSE "",
         !.kdfIterations = it, !.kdfMemory = 64, !.kdfParallelism = 4] :
        e \in {"absent", "false", "true"}, k \in KdfInputs, hs \in BOOLEAN,
        it \in {0, 600000}, v \in DocumentVaults}

\* The documents a file may hold.
Documents ==
    UNION {{[j EXCEPT !.encKeyValidation = c, !.data = d] :
               c \in ChallengeInputs(j), d \in DataInputs(j)} : j \in Envelopes}

(***************************************************************************)
(* The state.                                                              *)
(*   pc            where the function under way stands                     *)
(*   m_error       BitwardenReader::m_error                                *)
(*   fileState, password   the arguments of convert(): what the path      *)
(*                 names, and the password                                 *)
(*   file          << >>, or the one document the file held when parsed   *)
(*   json, mac, key, db    the locals of convert(); db is << >> until the  *)
(*                 database is created                                     *)
(*   result        what the last convert() returned: "none" before the     *)
(*                 first call, "pending" during a call, "null" or "db"     *)
(*   prevFailed    whether the call before this one returned null          *)
(*   cipherReached whether this call reached cipher.init                   *)
(*   vault, st, n  writeVaultToDatabase: its argument, its locals, the     *)
(*                 place of the next folder or item                        *)
(*   item, entry   readItem: its argument and the entry it builds          *)
(***************************************************************************)
VARIABLES pc, m_error, fileState, password, file, json, mac, key, db, result,
          prevFailed, cipherReached, vault, st, n, item, entry

vars == <<pc, m_error, fileState, password, file, json, mac, key, db, result,
          prevFailed, cipherReached, vault, st, n, item, entry>>

convertVars == <<m_error, fileState, password, file, json, mac, key, db, result,
                 prevFailed, cipherReached>>
vaultVars == <<vault, st, n>>
itemVars == <<item, entry>>

\* Lines 249-252.
hasError == m_error # ""

\* Lines 254-257.
errorString == m_error

ConvertIdle ==
    /\ m_error = ""
    /\ fileState = "none" /\ password = ""
    /\ file = << >> /\ json = PlainDocument(EmptyVault)
    /\ mac = "" /\ key = "" /\ db = << >>
    /\ result = "none" /\ prevFailed = FALSE /\ cipherReached = FALSE

VaultIdle == vault = EmptyVault /\ st = VaultStart(NewDatabase) /\ n = 0

ItemIdle == item = SimpleItem("", << >>) /\ entry = EmptyEntry

Init == pc = "idle" /\ ConvertIdle /\ VaultIdle /\ ItemIdle

(***************************************************************************)
(* convert().                                                              *)
(***************************************************************************)
\* An error return: m_error = ...; return {};
Fail(error) ==
    /\ m_error' = error
    /\ result' = "null"
    /\ pc' = "idle"
    /\ UNCHANGED <<fileState, password, file, json, mac, key, db, prevFailed>>
    /\ UNCHANGED <<vaultVars, itemVars>>

\* ConvertBegin without the m_error.clear() of line 261.
ConvertBeginKeepsError(path, pwd) ==
    /\ pc = "idle"
    /\ fileState' = path /\ password' = pwd
    /\ file' = << >> /\ json' = PlainDocument(EmptyVault)
    /\ mac' = "" /\ key' = "" /\ db' = << >>
    /\ result' = "pending"
    /\ prevFailed' = (result = "null")
    /\ cipherReached' = FALSE
    /\ pc' = "checkFile"
    /\ UNCHANGED <<m_error, vaultVars, itemVars>>

\* Line 261, on entry.
ConvertBegin(path, pwd) ==
    /\ pc = "idle"
    /\ m_error' = ""
    /\ fileState' = path /\ password' = pwd
    /\ file' = << >> /\ json' = PlainDocument(EmptyVault)
    /\ mac' = "" /\ key' = "" /\ db' = << >>
    /\ result' = "pending"
    /\ prevFailed' = (result = "null")
    /\ cipherReached' = FALSE
    /\ pc' = "checkFile"
    /\ UNCHANGED <<vaultVars, itemVars>>

\* CheckFile that returns for a missing file without a message.
CheckFileNoMessage ==
    /\ pc = "checkFile"
    /\ IF fileState = "missing"
       THEN /\ result' = "null"
            /\ pc' = "idle"
            /\ UNCHANGED <<m_error, fileState, password, file, json, mac, key, db,
                           prevFailed, vaultVars, itemVars>>
       ELSE IF fileState = "unreadable" THEN Fail("Cannot open file: Permission denied")
       ELSE /\ pc' = "parse"
            /\ UNCHANGED <<convertVars, vaultVars, itemVars>>
    /\ UNCHANGED cipherReached

\* Lines 263-274.
CheckFile ==
    /\ pc = "checkFile"
    /\ IF fileState = "missing" THEN Fail("File does not exist.")
       ELSE IF fileState = "unreadable" THEN Fail("Cannot open file: Permission denied")
       ELSE /\ pc' = "parse"
            /\ UNCHANGED <<convertVars, vaultVars, itemVars>>
    /\ UNCHANGED cipherReached

\* Lines 276-284: the file holds a document, or bytes that do not parse.
ParseFile ==
    /\ pc = "parse"
    /\ \/ Fail("Cannot parse file: illegal value at position 0")
       \/ \E doc \in Documents :
            /\ file' = <<doc>> /\ json' = doc
            /\ pc' = "envelope"
            /\ UNCHANGED <<m_error, fileState, password, mac, key, db, result, prevFailed>>
            /\ UNCHANGED <<vaultVars, itemVars>>
    /\ UNCHANGED cipherReached

\* Lines 287-343.
DeriveKeys ==
    /\ pc = "envelope"
    /\ IF ~IsEncrypted(json)
       THEN /\ pc' = "build"
            /\ UNCHANGED <<convertVars, vaultVars, itemVars>>
       ELSE IF ~json.hasKdfType \/ ~json.hasSalt
       THEN Fail(BuildError("Unsupported format, ensure your Bitwarden export is password-protected"))
       ELSE LET master == DeriveMasterKey(json, password)
            IN  IF master.error # "" THEN Fail(BuildError(master.error))
                ELSE /\ mac' = HkdfExpand(master.key, "mac")
                     /\ key' = HkdfExpand(master.key, "enc")
                     /\ pc' = "validate"
                     /\ UNCHANGED <<m_error, fileState, password, file, json, db, result,
                                    prevFailed>>
                     /\ UNCHANGED <<vaultVars, itemVars>>
    /\ UNCHANGED cipherReached

\* Lines 346-364.
ValidateKey ==
    /\ pc = "validate"
    /\ LET keyList == json.encKeyValidation
       IN  IF Len(keyList) < 2 THEN Fail(BuildError("Invalid encKeyValidation field"))
           ELSE IF Len(keyList[2]) < 3
           THEN Fail(BuildError("Invalid cipher list within encKeyValidation field"))
           ELSE IF ~MacMatches(mac, keyList[2]) THEN Fail(BuildError("Wrong password"))
           ELSE /\ pc' = "decrypt"
                /\ UNCHANGED <<convertVars, vaultVars, itemVars>>
    /\ UNCHANGED cipherReached

\* Lines 367-394.
DecryptData ==
    /\ pc = "decrypt"
    /\ LET keyList == json.data
       IN  IF Len(keyList) < 2
           THEN Fail(BuildError("Invalid encrypted data field")) /\ UNCHANGED cipherReached
           ELSE IF Len(keyList[2]) < 2
           THEN /\ Fail(BuildError("Invalid cipher list within encrypted data field"))
                /\ UNCHANGED cipherReached
           ELSE LET iv == FromBase64(keyList[2][1])
                    data == FromBase64(keyList[2][2])
                IN  /\ cipherReached' = TRUE
                    /\ IF ~CipherInit(key, iv)
                       THEN Fail(BuildError("Cannot initialize cipher"))
                       ELSE \E out \in CipherFinish(key, iv, data) :
                              IF ~out.ok THEN Fail(BuildError("Cannot decrypt data"))
                              ELSE IF out.plain \notin DOMAIN JsonTexts
                              THEN Fail(BuildError("illegal value"))
                              ELSE /\ json' = PlainDocument(JsonTexts[out.plain])
                                   /\ pc' = "build"
                                   /\ UNCHANGED <<m_error, fileState, password, file, mac,
                                                  key, db, result, prevFailed>>
                                   /\ UNCHANGED <<vaultVars, itemVars>>

\* The number of suffixes the items of a vault can draw.
RandomDraws(v) ==
    IF MissingCriticalItems(v) THEN 0 ELSE FieldsBefore(v.items, Len(v.items) + 1)

\* Lines 397-402.
BuildDatabase ==
    /\ pc = "build"
    /\ \E random \in [1..RandomDraws(json.vault) -> Suffixes] :
         db' = <<WriteVaultToDatabase(json.vault, NewDatabase, random)>>
    /\ result' = "db"
    /\ pc' = "idle"
    /\ UNCHANGED <<m_error, fileState, password, file, json, mac, key, prevFailed,
                   cipherReached>>
    /\ UNCHANGED <<vaultVars, itemVars>>

Next ==
    \/ \E path \in {"missing", "unreadable", "readable"}, pwd \in Passwords :
         ConvertBegin(path, pwd)
    \/ CheckFile
    \/ ParseFile
    \/ DeriveKeys
    \/ ValidateKey
    \/ DecryptData
    \/ BuildDatabase

Spec == Init /\ [][Next]_vars

(***************************************************************************)
(* writeVaultToDatabase(), one loop iteration at a time, on every vault    *)
(* tree of VaultInputs.                                                    *)
(***************************************************************************)
InitVault ==
    /\ pc = "writeVault"
    /\ vault \in VaultInputs
    /\ st = VaultStart(NewDatabase)
    /\ n = 0
    /\ ConvertIdle /\ ItemIdle

\* Lines 216-225.
WriteVaultBegin ==
    /\ pc = "writeVault"
    /\ IF MissingCriticalItems(vault)
       THEN pc' = "vaultDone" /\ n' = n
       ELSE pc' = "folders" /\ n' = 1
    /\ UNCHANGED <<vault, st, convertVars, itemVars>>

\* Lines 229-236: one folder.
WriteVaultGroup ==
    /\ pc = "folders"
    /\ n <= Len(VaultValue(vault, FolderField(vault)))
    /\ st' = CreateGroup(st, VaultValue(vault, FolderField(vault))[n])
    /\ n' = n + 1
    /\ UNCHANGED <<pc, vault, convertVars, itemVars>>

\* Lines 238-239: the folders are done.
WriteVaultItems ==
    /\ pc = "folders"
    /\ n > Len(VaultValue(vault, FolderField(vault)))
    /\ pc' = "items"
    /\ n' = 1
    /\ UNCHANGED <<vault, st, convertVars, itemVars>>

\* Lines 240-245: one item.
WriteVaultItem ==
    /\ pc = "items"
    /\ n <= Len(vault.items)
    /\ \E suffixes \in [1..Len(vault.items[n].fields) -> Suffixes] :
         st' = AttachItem(st, vault.items[n], n, suffixes)
    /\ n' = n + 1
    /\ UNCHANGED <<pc, vault, convertVars, itemVars>>

\* Line 246.
WriteVaultReturn ==
    /\ pc = "items"
    /\ n > Len(vault.items)
    /\ pc' = "vaultDone"
    /\ UNCHANGED <<vault, st, n, convertVars, itemVars>>

NextVault ==
    \/ WriteVaultBegin
    \/ WriteVaultGroup
    \/ WriteVaultItems
    \/ WriteVaultItem
    \/ WriteVaultReturn

SpecVault == InitVault /\ [][NextVault]_vars

(***************************************************************************)
(* readItem(), one sub-object or custom field at a time, on every item of  *)
(* ItemInputs.                                                             *)
(***************************************************************************)
InitItem ==
    /\ pc = "login"
    /\ item \in ItemInputs
    /\ entry = ReadBase(item)
    /\ n = 1
    /\ vault = EmptyVault /\ st = VaultStart(NewDatabase)
    /\ ConvertIdle

\* Lines 68-135.
ItemLogin ==
    /\ pc = "login"
    /\ entry' = ReadLogin(entry, item)
    /\ pc' = "identity"
    /\ UNCHANGED <<item, vaultVars, convertVars>>

\* Lines 138-178.
ItemIdentity ==
    /\ pc = "identity"
    /\ entry' = ReadIdentity(entry, item)
    /\ pc' = "card"
    /\ UNCHANGED <<item, vaultVars, convertVars>>

\* Lines 181-191.
ItemCard ==
    /\ pc = "card"
    /\ entry' = ReadCard(entry, item)
    /\ pc' = "fields"
    /\ UNCHANGED <<item, vaultVars, convertVars>>

\* Lines 194-206: one custom field; the uuid gives any suffix.
ItemField ==
    /\ pc = "fields"
    /\ n <= Len(item.fields)
    /\ \E suffix \in Suffixes : entry' = ReadField(entry, item.fields[n], suffix)
    /\ n' = n + 1
    /\ UNCHANGED <<pc, item, vault, st, convertVars>>

\* Lines 209-211.
ItemReturn ==
    /\ pc = "fields"
    /\ n > Len(item.fields)
    /\ pc' = "itemDone"
    /\ UNCHANGED <<item, entry, vaultVars, convertVars>>

NextItem ==
    \/ ItemLogin
    \/ ItemIdentity
    \/ ItemCard
    \/ ItemField
    \/ ItemReturn

SpecItem == InitItem /\ [][NextItem]_vars

(***************************************************************************)
(* The claims.                                                             *)
(***************************************************************************)
\* convert() has returned.
Returned == pc = "idle" /\ result \in {"null", "db"}

WrongPassword == BuildError("Wrong password")
UnsupportedKdf == BuildError("Only PBKDF and Argon2 are supported, cannot decrypt json file")

\* doc is an export of a vault protected with password p.
ValidContainerFor(doc, p) ==
    /\ doc.encrypted = "true" /\ doc.hasKdfType /\ doc.hasSalt
    /\ doc.kdfType \in {KdfPbkdf2, KdfArgon2}
    /\ doc.kdfType = KdfPbkdf2 => doc.kdfIterations > 0
    /\ doc.encKeyValidation = ChallengeFor(doc, p)
    /\ doc.data = DataFor(doc, p, "json:vault")

\* The MAC this call computes over the validation field equals the stored one.
StoredMacVerified ==
    /\ file # << >>
    /\ Len(file[1].encKeyValidation) >= 2
    /\ Len(file[1].encKeyValidation[2]) >= 3
    /\ LET c == file[1].encKeyValidation[2]
       IN  c[3] = ToBase64(Hmac(mac, FromBase64(c[1]) \o FromBase64(c[2])))

\* C1: cipher.init is reached only in a call whose computed HMAC equals the
\* stored MAC, and converting a valid container protected with password P with
\* another password returns the wrong-password error, no other.
C1_MacBeforeDecrypt ==
    /\ cipherReached => StoredMacVerified
    /\ \A p \in Passwords :
         (Returned /\ file # << >> /\ ValidContainerFor(file[1], p) /\ password # p)
            => (m_error = WrongPassword /\ ~cipherReached)

C1_Witness ==
    /\ Returned /\ file # << >>
    /\ ValidContainerFor(file[1], "correct-horse")
    /\ password = "wrong"
    /\ m_error = WrongPassword

\* C2: a call that has returned gave either a database and no error or no
\* database and an error; no database exists during a call or after an error,
\* and one is created for an encrypted document only after the MAC validation
\* and the decryption.
C2_AllOrNothing ==
    /\ Returned =>
          \/ result = "db" /\ db # << >> /\ ~hasError
          \/ result = "null" /\ db = << >> /\ hasError
    /\ (result = "pending" \/ hasError) => db = << >>
    /\ (db # << >> /\ file[1].encrypted = "true") => (cipherReached /\ StoredMacVerified)

C2_Witness ==
    /\ Returned /\ result = "null" /\ hasError /\ cipherReached /\ db = << >>

\* C3 as stated: a document with kdfType = 2 gives the unsupported-KDF error
\* whatever its other fields.
C3_Original ==
    (Returned /\ file # << >> /\ file[1].hasKdfType /\ file[1].kdfType = 2)
        => m_error = UnsupportedKdf

\* C3 as amended: a document with encrypted = true, a salt and kdfType = 2 gives
\* the unsupported-KDF error whatever its kdfIterations, validation and data.
C3_UnsupportedKdf ==
    (Returned /\ file # << >> /\ file[1].encrypted = "true" /\ file[1].hasSalt
       /\ file[1].hasKdfType /\ file[1].kdfType = 2)
        => (m_error = UnsupportedKdf /\ result = "null")

C3_Witness ==
    /\ Returned /\ file # << >>
    /\ file[1].encrypted = "true" /\ file[1].hasSalt
    /\ file[1].hasKdfType /\ file[1].kdfType = 2
    /\ file[1].kdfIterations = 0
    /\ file[1].encKeyValidation = EmptyField
    /\ m_error = UnsupportedKdf

\* C5: a plaintext document with no folders, no collections and no items
\* converts to a database of the root group alone, with no error.
C5_EmptyVault ==
    (Returned /\ file # << >> /\ file[1].encrypted \in {"absent", "false"}
       /\ ~file[1].vault.hasFolders /\ ~file[1].vault.hasCollections
       /\ ~file[1].vault.hasItems)
        => /\ result = "db" /\ ~hasError
           /\ db = <<[rootName |-> "Bitwarden Import", groups |-> << >>,
                      entries |-> << >>]>>

C5_Witness ==
    /\ Returned /\ file # << >> /\ file[1].encrypted = "false"
    /\ file[1].vault = EmptyVault
    /\ result = "db" /\ db # << >> /\ db[1].groups = << >> /\ db[1].entries = << >>

\* C10: hasError() after a call is true exactly when that call returned no
\* database, the message is one the call's own arguments give, and no message
\* of an earlier call is seen during or after a later call.
C10_NoErrorCrossesCalls ==
    /\ Returned => (hasError <=> result = "null")
    /\ (Returned /\ result = "db") => errorString = ""
    /\ result = "pending" => ~hasError
    /\ errorString = "File does not exist." => fileState = "missing"
    /\ errorString = "Cannot open file: Permission denied" => fileState = "unreadable"
    /\ (hasError /\ file # << >>) => IsEncrypted(file[1])

C10_Witness ==
    Returned /\ prevFailed /\ result = "db" /\ ~hasError /\ errorString = ""

\* writeVaultToDatabase() has returned.
VaultDone == pc = "vaultDone"

\* The folder list the groups are built from.
FolderList == VaultValue(vault, FolderField(vault))

\* The entries are one per item, in order, each with its own uuid and owned by
\* the root group or by one group of the database.
OneEntryPerItem ==
    LET entries == st.db.entries
        groups == st.db.groups
    IN  /\ Len(entries) = Len(vault.items)
        /\ \A i \in 1..Len(entries) :
             /\ entries[i].item = i
             /\ entries[i].entry.title = vault.items[i].name
             /\ \A j \in 1..Len(entries) : entries[i].uuid = entries[j].uuid => i = j
             /\ \/ entries[i].group = RootUuid
                \/ Cardinality({g \in 1..Len(groups) :
                                   groups[g].uuid = entries[i].group}) = 1

\* C4 as stated: a vault tree with an items list gives one entry per item,
\* whether or not it has a folders or a collections list.
C4_Original == (VaultDone /\ vault.hasItems) => OneEntryPerItem

\* C4 as amended: a vault tree with an items list and a folders or a collections
\* list gives one entry per item, none twice, each owned by exactly one group;
\* a vault tree without a folders and a collections list gives no entry.
C4_OneEntryPerItem ==
    /\ (VaultDone /\ vault.hasItems /\ (vault.hasFolders \/ vault.hasCollections))
          => OneEntryPerItem
    /\ (VaultDone /\ ~vault.hasFolders /\ ~vault.hasCollections)
          => (st.db.entries = << >> /\ st.db.groups = << >>)

C4_Witness ==
    /\ VaultDone /\ vault.hasItems /\ ~vault.hasFolders /\ vault.hasCollections
    /\ Len(vault.items) = 2 /\ Len(st.db.entries) = 2
    /\ st.db.entries[1].group = RootUuid /\ st.db.entries[2].group # RootUuid

\* The key an item is looked up under: its folderId, or else the first of its
\* collectionIds.
LookupKey(it) ==
    IF it.folderId # "" THEN it.folderId
    ELSE IF Len(it.collectionIds) > 0 THEN it.collectionIds[1]
    ELSE ""

\* The uuids of the groups built for the folders or collections with this id.
GroupsBuiltFor(id) ==
    {st.db.groups[g].uuid : g \in {k \in 1..Len(st.db.groups) : FolderList[k].id = id}}

\* C6: every entry is owned by a group built for its item's own lookup key when
\* that key is a folder or collection id, and by the root group when the key is
\* empty or is no such id.
C6_OwningGroup ==
    (pc \in {"items", "vaultDone"}) =>
        \A i \in 1..Len(st.db.entries) :
            LET lookup == LookupKey(vault.items[i])
            IN  IF lookup # "" /\ GroupsBuiltFor(lookup) # {}
                THEN st.db.entries[i].group \in GroupsBuiltFor(lookup)
                ELSE st.db.entries[i].group = RootUuid

\* C7: adding a custom field leaves every attribute the entry already has as it
\* was, whatever the suffix.
C7_NeverOverwrites ==
    [][(pc = "fields" /\ n' = n + 1) =>
          \A k \in DOMAIN entry.attrs :
              k \in DOMAIN entry'.attrs /\ entry'.attrs[k] = entry.attrs[k]]_vars

\* The additional-url attribute of index k.
AdditionalUrlKey(k) == "AdditionalUrl_" \o ToString(k)

\* readItem() has read the login and nothing after it.
LoginRead == pc = "identity" /\ item.hasLogin

FirstUrl(uris) ==
    IF \E k \in 1..Len(uris) : uris[k] # ""
    THEN CHOOSE k \in 1..Len(uris) : uris[k] # "" /\ \A j \in 1..(k - 1) : uris[j] = ""
    ELSE 0

LoginUsername == IF item.hasLogin THEN item.login.username ELSE ""

\* C9: once the identity is read, a non-empty identity username is the
\* identity_username attribute beside the unchanged login username, or, when the
\* login gave no username, the username of the entry with no such attribute.
C9_IdentityUsername ==
    (pc = "card" /\ item.hasIdentity /\ item.identity["username"] # "") =>
        IF LoginUsername # ""
        THEN /\ entry.username = LoginUsername
             /\ "identity_username" \in DOMAIN entry.attrs
             /\ entry.attrs["identity_username"] =
                    [value |-> item.identity["username"], protect |-> FALSE]
        ELSE /\ entry.username = item.identity["username"]
             /\ "identity_username" \notin DOMAIN entry.attrs

C9_Witness ==
    /\ pc = "card" /\ item.hasIdentity /\ item.hasLogin
    /\ item.login.username = "bob" /\ item.identity["username"] = "alice"
    /\ entry.username = "bob"
    /\ entry.attrs["identity_username"].value = "alice"

====
